---------------------------- MODULE Spec2Model ----------------------------
(***************************************************************************)
(* Model of the scientific-watch pipeline: the FastAPI handler             *)
(* search_articles (src/backend/api.py), the orchestrator                  *)
(* VeilleScientifiqueCrew (src/agents.py), the two article-search paths    *)
(* (src/tools/arxiv_tool.py, src/tools/arxiv_mcp_client.py with            *)
(* src/mcp_servers/arxiv_server.py), the RAG tool (src/tools/rag_tool.py), *)
(* the article table (src/tools/database.py) and the report generator      *)
(* (src/tools/pdf_generator.py).                                           *)
(*                                                                         *)
(* The external services (arXiv, the embedding API, the LLM, PostgreSQL,   *)
(* the file system) are the environment: every call to one of them either  *)
(* returns or raises, chosen nondeterministically.                         *)
(***************************************************************************)
EXTENDS Integers, Sequences, FiniteSets, TLC

(***************************************************************************)
(* Bounds of the model.                                                    *)
(***************************************************************************)
\* the largest number of articles the arXiv backend holds for one keyword
MaxResults == 4
\* the number of requests the API serves in one behaviour
MaxRuns == 1
\* the wall clock (seconds) runs from 0 to MaxClock
MaxClock == 1

(***************************************************************************)
(* Program constants.                                                      *)
(***************************************************************************)
\* api.py: max_articles must lie in [MinArticles, MaxArticlesAllowed]
MinArticles == 1
MaxArticlesAllowed == 50
\* arxiv_server.py: min(max_results, 50)
McpCeiling == 50
\* agents.py: self.articles[:3], article['summary'][:200]
QuickArticles == 3
QuickChars == 200
\* rag_tool.py: retrieve_relevant_articles(..., top_k=3)
ContextTopK == 3
\* rag_tool.py, database.py: the default of top_k and of limit
DefaultTopK == 5
\* HTTP status codes raised by api.py
StatusBadRequest == 400
StatusServerError == 500
\* the status FastAPI gives a handler that returns normally
StatusOk == 200

Min(a, b) == IF a <= b THEN a ELSE b

(***************************************************************************)
(* Inputs.  A keyword is a sequence of characters.                         *)
(***************************************************************************)
KwEmpty == << >>
KwBlank == << " " >>
KwA == << "q" >>
KwB == << "q", " ", "c" >>
\* KwB with an underscore for the space
KwC == << "q", "_", "c" >>
Keywords == {KwEmpty, KwBlank, KwA, KwB}
MaxArticlesInputs == {0, 1, MaxArticlesAllowed, MaxArticlesAllowed + 1}

\* str.strip(): leading and trailing whitespace removed
RECURSIVE LStrip(_)
LStrip(s) == IF s # << >> /\ Head(s) = " " THEN LStrip(Tail(s)) ELSE s
RECURSIVE RStrip(_)
RStrip(s) ==
    IF s # << >> /\ s[Len(s)] = " " THEN RStrip(SubSeq(s, 1, Len(s) - 1)) ELSE s
Strip(s) == RStrip(LStrip(s))

(***************************************************************************)
(* Python values that are either None, a string or a path.                 *)
(***************************************************************************)
PyNone == [t |-> "None", kw |-> << >>, ts |-> 0]
PyEmptyStr == [t |-> "str", kw |-> << >>, ts |-> 0]
\* bool(x) of such a value
Truthy(v) == v.t = "path"

(***************************************************************************)
(* The arXiv backend.  The i-th newest article for a keyword is the        *)
(* article with entry id Shift(keyword) + i, so the result lists of the    *)
(* two valid keywords overlap.                                             *)
(***************************************************************************)
Shift(kw) == IF kw = KwA THEN 0 ELSE 1
\* the length of the abstract of article i: around QuickChars, on both sides
AbstractLen(i) == QuickChars - 100 + 60 * i

\* arxiv_tool.search_arxiv: the dictionary built from one arXiv result
DirectArticle(i) ==
    [ title      |-> << "title", i >>,
      authors    |-> << "author", i >>,
      summary    |-> [of |-> i, len |-> AbstractLen(i)],
      published  |-> << "date", MaxResults + 1 - i >>,
      pdf_url    |-> << "pdf", i >>,
      entry_id   |-> i,
      categories |-> << "cat", i >> ]

\* arxiv_server.search_arxiv_tool: the dictionary built from one arXiv result
McpArticle(i) ==
    [ title            |-> << "title", i >>,
      authors          |-> << "author", i >>,
      summary          |-> [of |-> i, len |-> AbstractLen(i)],
      published        |-> << "date", MaxResults + 1 - i >>,
      pdf_url          |-> << "pdf", i >>,
      entry_id         |-> i,
      categories       |-> << "cat", i >>,
      primary_category |-> << "cat", i >> ]

\* the same arXiv entry with other metadata: what a caller of the store
\* holds when the entry it fetched carries other field values than the
\* stored one
Revised(article) ==
    [ title      |-> << "revised title", article.title[2] >>,
      authors    |-> << "revised author", article.authors[2] >>,
      summary    |-> [of |-> article.summary.of, len |-> article.summary.len + 1],
      published  |-> << "date", article.published[2] + 100 >>,
      pdf_url    |-> << "revised pdf", article.pdf_url[2] >>,
      entry_id   |-> article.entry_id,
      categories |-> << "revised cat", article.categories[2] >> ]

\* what arxiv.Search(query, max_results).results() yields when the backend
\* holds `avail` articles for the keyword: the newest min(max_results, avail)
BackendIds(kw, max_results, avail) ==
    [i \in 1 .. Min(max_results, avail) |-> Shift(kw) + i]


\* json.dumps / json.loads of a list of strings
JsonDumps(x) == << "json", x >>
JsonLoads(j) == j[2]

(***************************************************************************)
(* The embedding service and pgvector's cosine distance.  A vector is      *)
(* stood for by an integer and the distance by the absolute difference;    *)
(* the embedding of a title alone differs from the embedding of the        *)
(* title followed by the abstract, and a revised abstract moves the        *)
(* embedding.  Two stored vectors can be equally far from a query.         *)
(***************************************************************************)
EmbedTitle(title) == 3 * title[2]
EmbedTitleAndSummary(article) ==
    3 * article.title[2] + 1 + (article.summary.len - AbstractLen(article.summary.of))
CosineDistance(u, v) == IF u >= v THEN u - v ELSE v - u

(***************************************************************************)
(* src/backend/api.py: validation and the handler's except clause.         *)
(***************************************************************************)
\* the status of the HTTPException the validation raises, 0 when it raises none
ValidationStatus(req) ==
    IF req.keyword = << >> \/ Strip(req.keyword) = << >>
    THEN StatusBadRequest
    ELSE IF req.max_articles < MinArticles \/ req.max_articles > MaxArticlesAllowed
         THEN StatusBadRequest
         ELSE 0

\* `except Exception as e: raise HTTPException(status_code=500, ...)`: the
\* clause encloses the validation, and HTTPException is an Exception
HandlerExceptStatus(e) == StatusServerError

(***************************************************************************)
(* The two search paths.  Each returns [raised, value].                    *)
(***************************************************************************)
DirectOutcomes == {"ok", "search_error"}
McpOutcomes ==
    {"ok", "connect_error", "call_error", "error_response", "timeout"}

\* arxiv_tool.search_arxiv: the max_results handed to arxiv.Search
DirectRequested(max_results) == max_results
\* arxiv_server.search_arxiv_tool: the max_results handed to arxiv.Search
McpRequested(max_results) == Min(max_results, McpCeiling)

\* arxiv_tool.search_arxiv: any exception is caught and gives []
SearchArxivDirect(kw, max_results, avail, outcome) ==
    IF outcome = "ok"
    THEN LET ids == BackendIds(kw, DirectRequested(max_results), avail)
         IN [raised |-> FALSE,
             value  |-> [i \in DOMAIN ids |-> DirectArticle(ids[i])]]
    ELSE [raised |-> FALSE, value |-> << >>]

\* arxiv_server.search_arxiv_tool: the JSON text the tool answers with
SearchArxivTool(kw, max_results, avail, outcome) ==
    IF kw = << >>
    THEN JsonDumps([success |-> FALSE, articles |-> << >>])
    ELSE IF outcome = "ok"
         THEN LET ids == BackendIds(kw, McpRequested(max_results), avail)
              IN JsonDumps([success  |-> TRUE,
                            articles |-> [i \in DOMAIN ids |-> McpArticle(ids[i])]])
         ELSE JsonDumps([success |-> FALSE, articles |-> << >>])

\* ArxivMCPClient.search_arxiv, once connected: an exception of call_tool is
\* caught and gives [], an answer without success gives []
ClientSearchArxiv(kw, max_results, avail, outcome) ==
    IF outcome = "call_error"
    THEN << >>
    ELSE LET data == JsonLoads(SearchArxivTool(kw, max_results, avail, outcome))
         IN IF data.success THEN data.articles ELSE << >>

\* arxiv_mcp_client.search_arxiv_sync: connect() stands in a try/finally
\* without except, and future.result(timeout=120) raises on a timeout
SearchArxivSync(kw, max_results, avail, outcome) ==
    IF outcome \in {"connect_error", "timeout"}
    THEN [raised |-> TRUE, value |-> << >>]
    ELSE [raised |-> FALSE,
          value  |-> ClientSearchArxiv(kw, max_results, avail, outcome)]

\* agents.py lines 17-21: the search_arxiv the orchestrator imported
SearchArxiv(mcp, kw, max_results, avail, outcome) ==
    IF mcp
    THEN SearchArxivSync(kw, max_results, avail, outcome)
    ELSE SearchArxivDirect(kw, max_results, avail, outcome)

SearchOutcomes(mcp) == IF mcp THEN McpOutcomes ELSE DirectOutcomes

(***************************************************************************)
(* src/tools/database.py.  The surrogate key id and created_at are read by *)
(* no code and are left out of the rows.                                   *)
(***************************************************************************)
Row(article, kw, embedding) ==
    [ entry_id   |-> article.entry_id,
      title      |-> article.title,
      authors    |-> JsonDumps(article.authors),
      summary    |-> article.summary,
      published  |-> article.published,
      pdf_url    |-> article.pdf_url,
      categories |-> JsonDumps(article.categories),
      keyword    |-> kw,
      embedding  |-> embedding ]

\* insert_article: INSERT ... ON CONFLICT (entry_id) DO NOTHING; a database
\* error is caught and gives False
InsertArticle_DoUpdate(rows, article, kw, embedding, dbOk) ==
    IF ~dbOk
    THEN [ok |-> FALSE, rows |-> rows]
    ELSE [ok |-> TRUE,
          rows |-> {r \in rows : r.entry_id # article.entry_id}
                      \cup {Row(article, kw, embedding)}]
InsertArticle_PerKeyword(rows, article, kw, embedding, dbOk) ==
    IF ~dbOk
    THEN [ok |-> FALSE, rows |-> rows]
    ELSE IF \E r \in rows : r.entry_id = article.entry_id /\ r.keyword = kw
         THEN [ok |-> TRUE, rows |-> rows]
         ELSE [ok |-> TRUE, rows |-> rows \cup {Row(article, kw, embedding)}]
InsertArticle(rows, article, kw, embedding, dbOk) ==
    IF ~dbOk
    THEN [ok |-> FALSE, rows |-> rows]
    ELSE IF \E r \in rows : r.entry_id = article.entry_id
         THEN [ok |-> TRUE, rows |-> rows]
         ELSE [ok |-> TRUE, rows |-> rows \cup {Row(article, kw, embedding)}]

\* the rows of `rows` by increasing distance to the query
RECURSIVE OrderByDistance(_, _)
OrderByDistance(rows, q) ==
    IF rows = {}
    THEN << >>
    ELSE LET first == CHOOSE r \in rows :
                         \A o \in rows :
                            CosineDistance(r.embedding, q) <= CosineDistance(o.embedding, q)
         IN << first >> \o OrderByDistance(rows \ {first}, q)

\* the dictionary search_similar_articles builds from one row
SimilarArticle(r, q) ==
    [ entry_id   |-> r.entry_id,
      title      |-> r.title,
      authors    |-> JsonLoads(r.authors),
      summary    |-> r.summary,
      published  |-> r.published,
      pdf_url    |-> r.pdf_url,
      categories |-> JsonLoads(r.categories),
      similarity |-> 1 - CosineDistance(r.embedding, q) ]

\* search_similar_articles: WHERE keyword = kw ORDER BY distance LIMIT limit;
\* a database error is caught and gives []
SearchSimilarArticles_AnyKeyword(rows, q, kw, limit, dbOk) ==
    IF ~dbOk
    THEN << >>
    ELSE LET ordered == OrderByDistance(rows, q)
         IN [i \in 1 .. Min(limit, Len(ordered)) |-> SimilarArticle(ordered[i], q)]
SearchSimilarArticles(rows, q, kw, limit, dbOk) ==
    IF ~dbOk
    THEN << >>
    ELSE LET ordered == OrderByDistance({r \in rows : r.keyword = kw}, q)
         IN [i \in 1 .. Min(limit, Len(ordered)) |-> SimilarArticle(ordered[i], q)]

\* the rows of `rows` from the latest publication date to the earliest
RECURSIVE OrderByPublishedDesc(_)
OrderByPublishedDesc(rows) ==
    IF rows = {}
    THEN << >>
    ELSE LET first == CHOOSE r \in rows :
                         \A o \in rows : r.published[2] >= o.published[2]
         IN << first >> \o OrderByPublishedDesc(rows \ {first})

\* the dictionary get_all_articles_by_keyword builds from one row
StoredArticle(r) ==
    [ entry_id   |-> r.entry_id,
      title      |-> r.title,
      authors    |-> JsonLoads(r.authors),
      summary    |-> r.summary,
      published  |-> r.published,
      pdf_url    |-> r.pdf_url,
      categories |-> JsonLoads(r.categories) ]

\* get_all_articles_by_keyword: WHERE keyword = kw ORDER BY published DESC;
\* a database error is caught and gives []
GetAllArticlesByKeyword(rows, kw, dbOk) ==
    IF ~dbOk
    THEN << >>
    ELSE LET ordered == OrderByPublishedDesc({r \in rows : r.keyword = kw})
         IN [i \in DOMAIN ordered |-> StoredArticle(ordered[i])]

\* WHERE keyword = kw
Tagged(rows, kw) == {r \in rows : r.keyword = kw}

\* clear_articles_by_keyword: DELETE FROM articles WHERE keyword = kw
ClearArticlesByKeyword_All(rows, kw, dbOk) ==
    IF ~dbOk
    THEN [ok |-> FALSE, rows |-> rows]
    ELSE [ok |-> TRUE, rows |-> {}]
ClearArticlesByKeyword(rows, kw, dbOk) ==
    IF ~dbOk
    THEN [ok |-> FALSE, rows |-> rows]
    ELSE [ok |-> TRUE, rows |-> {r \in rows : r.keyword # kw}]

\* The table outlives the process: when the API starts it is empty, or it
\* holds a row stored earlier under the other keyword.
InitialTables ==
    { {},
      {Row(DirectArticle(Shift(KwB) + 1), KwB,
           EmbedTitleAndSummary(DirectArticle(Shift(KwB) + 1)))} }

(***************************************************************************)
(* src/tools/rag_tool.py.                                                  *)
(***************************************************************************)
\* embed_and_store_article: an exception of the embedding call (or of the
\* insert) is caught and gives False
EmbedAndStoreArticle_StoreAnyway(rows, article, kw, embOk, dbOk) ==
    InsertArticle(rows, article, kw, EmbedTitleAndSummary(article), dbOk)
EmbedAndStoreArticle(rows, article, kw, embOk, dbOk) ==
    IF ~embOk
    THEN [ok |-> FALSE, rows |-> rows]
    ELSE InsertArticle(rows, article, kw, EmbedTitleAndSummary(article), dbOk)

\* retrieve_relevant_articles: an exception of the embedding call gives []
RetrieveRelevantArticles(rows, query, kw, top_k, embOk, dbOk) ==
    IF ~embOk
    THEN << >>
    ELSE SearchSimilarArticles(rows, EmbedTitle(query), kw, top_k, dbOk)

\* A text of get_context_for_summary is a sequence of pieces: the block
\* "Titre: <title>\nResume: <abstract>\n" of one article, or the delimiter
\* "\n---\n".  The empty string is the empty sequence.
ContextBlock(article) ==
    [t |-> "block", title |-> article.title, summary |-> article.summary]
ContextDelimiter == [t |-> "delimiter"]

\* sep.join(parts)
RECURSIVE Join(_, _)
Join(sep, parts) ==
    IF Len(parts) <= 1
    THEN parts
    ELSE << Head(parts), sep >> \o Join(sep, Tail(parts))

\* get_context_for_summary: the blocks of the neighbours of the title, in
\* retrieval order, joined by the delimiter.  Its except clause returns "";
\* retrieve_relevant_articles already turned every failure into [].
GetContextForSummary_DefaultTopK(rows, article_title, kw, embOk, dbOk) ==
    LET found == RetrieveRelevantArticles(rows, article_title, kw, DefaultTopK,
                                          embOk, dbOk)
    IN Join(ContextDelimiter, [i \in DOMAIN found |-> ContextBlock(found[i])])
GetContextForSummary(rows, article_title, kw, embOk, dbOk) ==
    LET found == RetrieveRelevantArticles(rows, article_title, kw, ContextTopK,
                                          embOk, dbOk)
    IN Join(ContextDelimiter, [i \in DOMAIN found |-> ContextBlock(found[i])])

(***************************************************************************)
(* src/tools/pdf_generator.py.                                             *)
(***************************************************************************)
\* keyword.replace(' ', '_')
ReplaceSpaces(kw) == [i \in DOMAIN kw |-> IF kw[i] = " " THEN "_" ELSE kw[i]]

\* rapport_veille_<keyword>_<timestamp to the second>.pdf in the output dir
ReportPath(kw, ts) == [t |-> "path", kw |-> ReplaceSpaces(kw), ts |-> ts]

\* PDFGenerator.generate_report: any exception is caught and gives ""
GenerateReport(output_path, buildOk) ==
    IF buildOk THEN output_path ELSE PyEmptyStr

(***************************************************************************)
(* src/agents.py: the pure parts of the orchestrator.                      *)
(***************************************************************************)
QuickNoArticles == "Aucun article trouve pour ce mot-cle."
SynthesisNoSummaries == "Aucun resume disponible pour creer une synthese."
ErrorNoArticles == "Aucun article trouve"

\* `not x` of a list
IsEmptyList(l) == l = << >>

\* article['summary'][:200]
Truncate(abstract) == [of |-> abstract.of, len |-> Min(abstract.len, QuickChars)]

\* execute_quick_summary: the text built from self.articles[:3]
TitlesAndSummaries_AllArticles(arts) ==
    [i \in DOMAIN arts |->
        [title |-> arts[i].title, summary |-> Truncate(arts[i].summary)]]
TitlesAndSummaries(arts) ==
    [i \in 1 .. Min(QuickArticles, Len(arts)) |->
        [title |-> arts[i].title, summary |-> Truncate(arts[i].summary)]]

\* execute_summarization: the entry appended for one article
SummaryEntry_AuthorsSerialized(article, text) ==
    [ title     |-> article.title,
      authors   |-> JsonDumps(article.authors),
      published |-> article.published,
      pdf_url   |-> article.pdf_url,
      summary   |-> text ]
SummaryEntry(article, text) ==
    [ title     |-> article.title,
      authors   |-> article.authors,
      published |-> article.published,
      pdf_url   |-> article.pdf_url,
      summary   |-> text ]

\* execute_global_synthesis: the text built from self.article_summaries
AllSummaries_WithAuthors(summaries) ==
    [i \in DOMAIN summaries |->
        [title |-> summaries[i].title, summary |-> summaries[i].summary,
         authors |-> summaries[i].authors]]
AllSummaries(summaries) ==
    [i \in DOMAIN summaries |->
        [title |-> summaries[i].title, summary |-> summaries[i].summary]]

\* whether `for idx, article in enumerate(self.articles, 1)` ends after idx
\* execute_summarization, line 255: the context of the i-th article is asked
\* for with article['title'], the title of the article of this turn
ContextQuery_First(arts, i) == arts[1].title
ContextQuery(arts, i) == arts[i].title

LoopDone_OffByOne(i, arts) == i + 1 >= Len(arts)
LoopDone(i, arts) == i >= Len(arts)

\* run_complete_workflow line 430: `if not articles`
NoArticles_Never(arts) == FALSE
NoArticles(arts) == IsEmptyList(arts)

\* run_complete_workflow lines 431-436
NoArticlesResult ==
    [ success       |-> FALSE,
      error         |-> ErrorNoArticles,
      quick_summary |-> QuickNoArticles,
      pdf_path      |-> PyNone ]

\* run_complete_workflow lines 454-462
WorkflowResult(kw, arts, quick, synthesis, summaries, path) ==
    [ success           |-> TRUE,
      keyword           |-> kw,
      articles_count    |-> Len(arts),
      quick_summary     |-> quick,
      global_synthesis  |-> synthesis,
      article_summaries |-> summaries,
      pdf_path          |-> path ]

\* run_complete_workflow lines 438-448: the call that follows each call
AfterStage_SummarizeFirst(stage) ==
    CASE stage = "COLLECT"        -> "summarize"
      [] stage = "SUMMARIZE_EACH" -> "quick"
      [] stage = "QUICK_DIGEST"   -> "synth"
      [] stage = "SYNTHESIZE"     -> "render"
      [] stage = "RENDER_REPORT"  -> "return"
AfterStage(stage) ==
    CASE stage = "COLLECT"        -> "quick"
      [] stage = "QUICK_DIGEST"   -> "summarize"
      [] stage = "SUMMARIZE_EACH" -> "synth"
      [] stage = "SYNTHESIZE"     -> "render"
      [] stage = "RENDER_REPORT"  -> "return"

(***************************************************************************)
(* State.                                                                  *)
(***************************************************************************)
VARIABLES
    useMcp,            \* agents.USE_MCP_ARXIV, fixed when the module is imported
    now,               \* the wall clock, in seconds
    runs,              \* number of requests received so far
    pc,                \* where the request handler stands
    request,           \* the SearchRequest being served
    response,          \* the HTTP response of the last request served
    exc,               \* the exception propagating out of the workflow, if any
    crews,             \* number of VeilleScientifiqueCrew objects constructed
    keyword,           \* self.keyword
    max_articles,      \* self.max_articles
    articles,          \* self.articles
    article_summaries, \* self.article_summaries
    idx,               \* the loop index of the store loop / the summary loop
    stored_count,      \* store_multiple_articles: success_count
    context,           \* execute_summarization: context of the current article
    quick_summary,     \* run_complete_workflow: local quick_summary
    global_synthesis,  \* run_complete_workflow: local global_synthesis
    pdf_path,          \* run_complete_workflow: local pdf_path
    result,            \* the dictionary run_complete_workflow returned
    db,                \* the rows of table articles
    files,             \* the report files written
    started,           \* history: the stages of this run that have started
    completed,         \* history: the stages of this run that have returned
    llmCalls,          \* history: number of kickoff() calls of this run
    events,            \* history: what the backend calls of this run did
    db0,               \* history: the rows of the table when this run began
    quickInput,        \* history: the articles text of the quick-digest prompt
    synthInput,        \* history: the summaries text of the synthesis prompt
    call,              \* the last call made on the RAG tool and what it returned
    sessions,          \* the concurrent runs that hold a database connection
    renders,           \* the concurrent runs that render a report
    handed,            \* the results run_complete_workflow handed to a caller
    mcp                \* one search_arxiv_sync call: its two threads, its client

vars == << useMcp, now, runs, pc, request, response, exc, crews, keyword,
           max_articles, articles, article_summaries, idx, stored_count,
           context, quick_summary, global_synthesis, pdf_path, result, db,
           files, started, completed, llmCalls, events, db0, quickInput,
           synthInput, call, sessions, renders, handed, mcp >>

\* the variables that only the specifications of the RAG tool, of the
\* concurrent database sessions, of the concurrent renderers, of the reused
\* crew and of the protocol client change
clientVars == << call, sessions, renders, handed, mcp >>


NoRequest == [keyword |-> KwEmpty, max_articles |-> 0]
NoResponse == [status |-> 0]
NoResult == [none |-> TRUE]
NoText == ""
\* no prompt has been built
NoInput == << >>
\* no call has been made on the RAG tool
NoCall == [op |-> "none"]
\* no result has been handed to a caller
NoneHanded == << >>
\* search_arxiv_sync has not been called
NoMcp == [main |-> "none"]

StageOrder ==
    << "COLLECT", "QUICK_DIGEST", "SUMMARIZE_EACH", "SYNTHESIZE",
       "RENDER_REPORT" >>

\* the text the LLM answers with (no code reads it; it is only passed on),
\* and the outcome of a call that raises
LLMTexts == {"llm text"}
LLMError == "raise"
LLMOutcomes == LLMTexts \cup {LLMError}

\* the variables of the request handler and of its crew
handlerVars ==
    << useMcp, runs, pc, request, response, exc, crews, keyword, max_articles,
       articles, article_summaries, idx, stored_count, context, quick_summary,
       global_synthesis, pdf_path, result, started, completed, llmCalls,
       events, db0, quickInput, synthInput >>

\* the request handler before its first request
HandlerIdle ==
    /\ runs = 0
    /\ pc = "idle"
    /\ request = NoRequest
    /\ response = NoResponse
    /\ exc = "none"
    /\ crews = 0
    /\ keyword = KwEmpty
    /\ max_articles = 0
    /\ articles = << >>
    /\ article_summaries = << >>
    /\ idx = 0
    /\ stored_count = 0
    /\ context = << >>
    /\ quick_summary = NoText
    /\ global_synthesis = NoText
    /\ pdf_path = PyNone
    /\ result = NoResult
    /\ started = << >>
    /\ completed = << >>
    /\ llmCalls = 0
    /\ events = {}
    /\ quickInput = NoInput
    /\ synthInput = NoInput

Init ==
    /\ HandlerIdle
    /\ useMcp \in BOOLEAN
    /\ now = 0
    /\ db \in InitialTables
    /\ db0 = db
    /\ files = {}
    /\ call = NoCall
    /\ sessions = << >>
    /\ renders = << >>
    /\ handed = NoneHanded
    /\ mcp = NoMcp


(***************************************************************************)
(* Actions.  The handler search_articles serves one request at a time; pc  *)
(* is the statement it stands at.  An exception that no except clause of   *)
(* the orchestrator catches takes the handler to "raised".                 *)
(***************************************************************************)
Raise(what) ==
    /\ pc' = "raised"
    /\ exc' = what

\* search_articles, lines 89-106: validation and construction of the crew
SearchArticlesRequest(kw, m) ==
    /\ pc \in {"idle", "responded"}
    /\ runs < MaxRuns
    /\ runs' = runs + 1
    /\ request' = [keyword |-> kw, max_articles |-> m]
    /\ response' = NoResponse
    /\ result' = NoResult
    /\ idx' = 0
    /\ stored_count' = 0
    /\ context' = << >>
    /\ quick_summary' = NoText
    /\ global_synthesis' = NoText
    /\ pdf_path' = PyNone
    /\ started' = << >>
    /\ completed' = << >>
    /\ llmCalls' = 0
    /\ events' = {}
    /\ db0' = db
    /\ articles' = << >>
    /\ article_summaries' = << >>
    /\ IF ValidationStatus([keyword |-> kw, max_articles |-> m]) # 0
       THEN /\ Raise("HTTPException")
            /\ keyword' = KwEmpty
            /\ max_articles' = 0
            /\ crews' = crews
       ELSE /\ pc' = "collect"
            /\ exc' = "none"
            /\ keyword' = kw
            /\ max_articles' = m
            /\ crews' = crews + 1
    /\ quickInput' = NoInput
    /\ synthInput' = NoInput
    /\ UNCHANGED << clientVars, useMcp, now, db, files >>

\* execute_collection, lines 218-225: the search
ExecuteCollectionSearch ==
    /\ pc = "collect"
    /\ started' = Append(started, "COLLECT")
    /\ \E avail \in 0 .. MaxResults, outcome \in SearchOutcomes(useMcp) :
          LET r == SearchArxiv(useMcp, keyword, max_articles, avail, outcome)
          IN IF r.raised
             THEN /\ Raise(outcome)
                  /\ events' = events \cup {"search_raised"}
                  /\ UNCHANGED << articles, idx, completed >>
             ELSE /\ articles' = r.value
                  /\ exc' = exc
                  /\ events' = IF outcome = "ok" THEN events
                               ELSE events \cup {"search_error"}
                  /\ IF IsEmptyList(r.value)
                     THEN /\ pc' = "check"
                          /\ completed' = Append(completed, "COLLECT")
                          /\ idx' = idx
                     ELSE /\ pc' = "store"
                          /\ idx' = 1
                          /\ completed' = completed
    /\ UNCHANGED << clientVars, quickInput, synthInput, db0,
                    useMcp, now, runs, request, response, crews, keyword,
                    max_articles, article_summaries, stored_count, context,
                    quick_summary, global_synthesis, pdf_path, result, db,
                    files, llmCalls >>

\* execute_collection, lines 231-234: one turn of store_multiple_articles
StoreArticle ==
    /\ pc = "store"
    /\ \E embOk \in BOOLEAN, dbOk \in BOOLEAN :
          LET r == EmbedAndStoreArticle(db, articles[idx], keyword, embOk, dbOk)
          IN /\ db' = r.rows
             /\ stored_count' = IF r.ok THEN stored_count + 1 ELSE stored_count
             /\ events' = events \cup
                           (IF ~embOk THEN {"embed_error"}
                            ELSE IF ~dbOk THEN {"embed_ok", "insert_error"}
                            ELSE IF r.rows = db THEN {"embed_ok", "insert_conflict"}
                            ELSE {"embed_ok", "inserted"})
    /\ IF idx >= Len(articles)
       THEN /\ pc' = "check"
            /\ completed' = Append(completed, "COLLECT")
            /\ idx' = idx
       ELSE /\ pc' = pc
            /\ completed' = completed
            /\ idx' = idx + 1
    /\ UNCHANGED << clientVars, quickInput, synthInput, db0,
                    useMcp, now, runs, request, response, exc, crews, keyword,
                    max_articles, articles, article_summaries, context,
                    quick_summary, global_synthesis, pdf_path, result, files,
                    started, llmCalls >>

\* run_complete_workflow, lines 430-436: the only early return
CheckArticles ==
    /\ pc = "check"
    /\ IF NoArticles(articles)
       THEN /\ result' = NoArticlesResult
            /\ pc' = "returned"
       ELSE /\ result' = result
            /\ pc' = AfterStage("COLLECT")
    /\ UNCHANGED << clientVars, quickInput, synthInput, db0,
                    useMcp, now, runs, request, response, exc, crews, keyword,
                    max_articles, articles, article_summaries, idx,
                    stored_count, context, quick_summary, global_synthesis,
                    pdf_path, db, files, started, completed, llmCalls,
                    events >>

\* execute_quick_summary: kickoff() is not enclosed in any try
ExecuteQuickSummary ==
    /\ pc = "quick"
    /\ started' = Append(started, "QUICK_DIGEST")
    /\ IF IsEmptyList(articles)
       THEN /\ quick_summary' = QuickNoArticles
            /\ pc' = AfterStage("QUICK_DIGEST")
            /\ completed' = Append(completed, "QUICK_DIGEST")
            /\ UNCHANGED << exc, llmCalls, events, quickInput >>
       ELSE /\ quickInput' = TitlesAndSummaries(articles)
            /\ llmCalls' = llmCalls + 1
            /\ \E out \in LLMOutcomes :
                  IF out = LLMError
                  THEN /\ Raise("quick_llm_error")
                       /\ events' = events \cup {"quick_error"}
                       /\ UNCHANGED << quick_summary, completed >>
                  ELSE /\ quick_summary' = out
                       /\ pc' = AfterStage("QUICK_DIGEST")
                       /\ completed' = Append(completed, "QUICK_DIGEST")
                       /\ UNCHANGED << exc, events >>
    /\ UNCHANGED << clientVars, synthInput, db0,
                    useMcp, now, runs, request, response, crews, keyword,
                    max_articles, articles, article_summaries, idx,
                    stored_count, context, global_synthesis, pdf_path, result,
                    db, files >>

\* execute_summarization, lines 243-249
ExecuteSummarizationBegin ==
    /\ pc = "summarize"
    /\ started' = Append(started, "SUMMARIZE_EACH")
    /\ IF IsEmptyList(articles)
       THEN /\ pc' = AfterStage("SUMMARIZE_EACH")
            /\ completed' = Append(completed, "SUMMARIZE_EACH")
            /\ idx' = idx
       ELSE /\ pc' = "sum_context"
            /\ completed' = completed
            /\ idx' = 1
    /\ UNCHANGED << clientVars, quickInput, synthInput, db0,
                    useMcp, now, runs, request, response, exc, crews, keyword,
                    max_articles, articles, article_summaries, stored_count,
                    context, quick_summary, global_synthesis, pdf_path, result,
                    db, files, llmCalls, events >>

\* execute_summarization, line 255: the context of article idx
BuildContext ==
    /\ pc = "sum_context"
    /\ \E embOk \in BOOLEAN, dbOk \in BOOLEAN :
          context' = GetContextForSummary(db, ContextQuery(articles, idx),
                                          keyword, embOk, dbOk)
    /\ pc' = "sum_kickoff"
    /\ UNCHANGED << clientVars, quickInput, synthInput, db0,
                    useMcp, now, runs, request, response, exc, crews, keyword,
                    max_articles, articles, article_summaries, idx,
                    stored_count, quick_summary, global_synthesis, pdf_path,
                    result, db, files, started, completed, llmCalls, events >>

\* execute_summarization, lines 258-292: kickoff() is not enclosed in any
\* try, then the entry is appended
SummarizeArticle ==
    /\ pc = "sum_kickoff"
    /\ llmCalls' = llmCalls + 1
    /\ \E out \in LLMOutcomes :
          IF out = LLMError
          THEN /\ Raise("summary_llm_error")
               /\ events' = events \cup {"summary_error"}
               /\ UNCHANGED << article_summaries, idx, completed, context >>
          ELSE /\ article_summaries' =
                      Append(article_summaries, SummaryEntry(articles[idx], out))
               /\ context' = << >>
               /\ UNCHANGED << exc, events >>
               /\ IF LoopDone(idx, articles)
                  THEN /\ pc' = AfterStage("SUMMARIZE_EACH")
                       /\ completed' = Append(completed, "SUMMARIZE_EACH")
                       /\ idx' = idx
                  ELSE /\ pc' = "sum_context"
                       /\ completed' = completed
                       /\ idx' = idx + 1
    /\ UNCHANGED << clientVars, quickInput, synthInput, db0,
                    useMcp, now, runs, request, response, crews, keyword,
                    max_articles, articles, stored_count, quick_summary,
                    global_synthesis, pdf_path, result, db, files, started >>

\* execute_global_synthesis: kickoff() is not enclosed in any try
ExecuteGlobalSynthesis ==
    /\ pc = "synth"
    /\ started' = Append(started, "SYNTHESIZE")
    /\ IF IsEmptyList(article_summaries)
       THEN /\ global_synthesis' = SynthesisNoSummaries
            /\ pc' = AfterStage("SYNTHESIZE")
            /\ completed' = Append(completed, "SYNTHESIZE")
            /\ UNCHANGED << exc, llmCalls, events, synthInput >>
       ELSE /\ synthInput' = AllSummaries(article_summaries)
            /\ llmCalls' = llmCalls + 1
            /\ \E out \in LLMOutcomes :
                  IF out = LLMError
                  THEN /\ Raise("synthesis_llm_error")
                       /\ events' = events \cup {"synthesis_error"}
                       /\ UNCHANGED << global_synthesis, completed >>
                  ELSE /\ global_synthesis' = out
                       /\ pc' = AfterStage("SYNTHESIZE")
                       /\ completed' = Append(completed, "SYNTHESIZE")
                       /\ UNCHANGED << exc, events >>
    /\ UNCHANGED << clientVars, quickInput, db0,
                    useMcp, now, runs, request, response, crews, keyword,
                    max_articles, articles, article_summaries, idx,
                    stored_count, context, quick_summary, pdf_path, result, db,
                    files >>

\* agents.generate_pdf_report and pdf_generator.generate_pdf_report:
\* os.makedirs stands outside the try of generate_report
GeneratePdfReport ==
    /\ pc = "render"
    /\ started' = Append(started, "RENDER_REPORT")
    /\ \E mkdirOk \in BOOLEAN, buildOk \in BOOLEAN :
          IF ~mkdirOk
          THEN /\ Raise("makedirs_error")
               /\ events' = events \cup {"makedirs_error"}
               /\ UNCHANGED << pdf_path, files, completed >>
          ELSE /\ pdf_path' = GenerateReport(ReportPath(keyword, now), buildOk)
               /\ files' = IF buildOk
                           THEN files \cup {ReportPath(keyword, now)}
                           ELSE files
               /\ events' = events \cup
                             {IF buildOk THEN "report_written" ELSE "build_error"}
               /\ pc' = AfterStage("RENDER_REPORT")
               /\ completed' = Append(completed, "RENDER_REPORT")
               /\ exc' = exc
    /\ UNCHANGED << clientVars, quickInput, synthInput, db0,
                    useMcp, now, runs, request, response, crews, keyword,
                    max_articles, articles, article_summaries, idx,
                    stored_count, context, quick_summary, global_synthesis,
                    result, db, llmCalls >>

\* run_complete_workflow, lines 454-462
ReturnResult ==
    /\ pc = "return"
    /\ result' = WorkflowResult(keyword, articles, quick_summary,
                                global_synthesis, article_summaries, pdf_path)
    /\ pc' = "returned"
    /\ UNCHANGED << clientVars, quickInput, synthInput, db0,
                    useMcp, now, runs, request, response, exc, crews, keyword,
                    max_articles, articles, article_summaries, idx,
                    stored_count, context, quick_summary, global_synthesis,
                    pdf_path, db, files, started, completed, llmCalls,
                    events >>

\* search_articles, line 111: return SearchResponse(**results)
Respond ==
    /\ pc = "returned"
    /\ response' = [status |-> StatusOk]
    /\ pc' = "responded"
    /\ UNCHANGED << clientVars, quickInput, synthInput, db0,
                    useMcp, now, runs, request, exc, crews, keyword,
                    max_articles, articles, article_summaries, idx,
                    stored_count, context, quick_summary, global_synthesis,
                    pdf_path, result, db, files, started, completed, llmCalls,
                    events >>

\* search_articles, lines 113-117: except Exception -> HTTPException(500)
HandleException ==
    /\ pc = "raised"
    /\ response' = [status |-> HandlerExceptStatus(exc)]
    /\ pc' = "responded"
    /\ UNCHANGED << clientVars, quickInput, synthInput, db0,
                    useMcp, now, runs, request, exc, crews, keyword,
                    max_articles, articles, article_summaries, idx,
                    stored_count, context, quick_summary, global_synthesis,
                    pdf_path, result, db, files, started, completed, llmCalls,
                    events >>

Next ==
    \/ \E kw \in Keywords, m \in MaxArticlesInputs : SearchArticlesRequest(kw, m)
    \/ ExecuteCollectionSearch
    \/ StoreArticle
    \/ CheckArticles
    \/ ExecuteQuickSummary
    \/ ExecuteSummarizationBegin
    \/ BuildContext
    \/ SummarizeArticle
    \/ ExecuteGlobalSynthesis
    \/ GeneratePdfReport
    \/ ReturnResult
    \/ Respond
    \/ HandleException

Spec == Init /\ [][Next]_vars

(***************************************************************************)
(* The store on its own: one caller makes calls on the database manager    *)
(* and on the RAG tool, one after the other, each in its own connection.   *)
(***************************************************************************)
\* the number of arXiv entries the caller holds
MaxStored == 4

StoreKeywords == {KwA, KwB}
\* the articles the caller stores: each entry as fetched, and revised
CallerArticles ==
    {DirectArticle(i) : i \in 1 .. MaxStored}
        \cup {Revised(DirectArticle(i)) : i \in 1 .. MaxStored}
\* the titles the caller asks neighbours of
QueryTitles == {DirectArticle(i).title : i \in 1 .. MaxStored}
\* the limits the caller asks for
Limits == {1, ContextTopK, DefaultTopK}

\* the operations of DatabaseManager that open a connection of their own
DbOps ==
    { "insert_article", "search_similar_articles",
      "get_all_articles_by_keyword", "clear_articles_by_keyword" }
\* the two that convert the fetched rows after conn.close()
DbReaders == {"search_similar_articles", "get_all_articles_by_keyword"}

\* The connection an operation opened, when the operation returns.  On the
\* success path conn.close() has run.  The except clause closes nothing: if
\* _get_connection() raised there is no connection; if a later statement
\* raised, the connection object is only dropped, and it is closed when the
\* interpreter finalizes it, at once or later; a reader can also fail in the
\* conversion that follows conn.close().
ConnectionOutcomes(op, dbOk) ==
    IF dbOk
    THEN {"closed"}
    ELSE {"not_acquired", "dropped_open", "dropped_finalized"}
            \cup (IF op \in DbReaders THEN {"closed"} ELSE {})

InitRag ==
    /\ HandlerIdle
    /\ useMcp = FALSE
    /\ now = 0
    /\ db = {}
    /\ db0 = {}
    /\ files = {}
    /\ call = NoCall
    /\ sessions = << >>
    /\ renders = << >>
    /\ handed = NoneHanded
    /\ mcp = NoMcp


\* insert_article(article, keyword, embedding), with the embedding that
\* embed_and_store_article computes (rag_tool.py lines 34-40)
CallInsertArticle(article, kw, dbOk) ==
    LET r == InsertArticle(db, article, kw, EmbedTitleAndSummary(article), dbOk)
    IN /\ call = NoCall
       /\ db' = r.rows
       /\ \E c \in ConnectionOutcomes("insert_article", dbOk) :
             call' = [op |-> "insert_article", article |-> article, kw |-> kw,
                      dbOk |-> dbOk, out |-> r.ok, conn |-> c]
       /\ UNCHANGED << handlerVars, handed, mcp, now, files, sessions, renders >>

\* search_similar_articles(query_embedding, keyword, limit), with the query
\* embedding that retrieve_relevant_articles computes (rag_tool.py line 61)
CallSearchSimilarArticles(title, kw, limit, dbOk) ==
    /\ call = NoCall
    /\ \E c \in ConnectionOutcomes("search_similar_articles", dbOk) :
          call' = [op |-> "search_similar_articles", q |-> EmbedTitle(title),
                   kw |-> kw, limit |-> limit, dbOk |-> dbOk,
                   out |-> SearchSimilarArticles(db, EmbedTitle(title), kw,
                                                 limit, dbOk),
                   conn |-> c]
    /\ UNCHANGED << handlerVars, handed, mcp, now, db, files, sessions, renders >>

\* get_all_articles_by_keyword(keyword)
CallGetAllArticlesByKeyword(kw, dbOk) ==
    /\ call = NoCall
    /\ \E c \in ConnectionOutcomes("get_all_articles_by_keyword", dbOk) :
          call' = [op |-> "get_all_articles_by_keyword", kw |-> kw,
                   dbOk |-> dbOk,
                   out |-> GetAllArticlesByKeyword(db, kw, dbOk), conn |-> c]
    /\ UNCHANGED << handlerVars, handed, mcp, now, db, files, sessions, renders >>

\* clear_articles_by_keyword(keyword)
CallClearArticlesByKeyword(kw, dbOk) ==
    LET r == ClearArticlesByKeyword(db, kw, dbOk)
    IN /\ call = NoCall
       /\ db' = r.rows
       /\ \E c \in ConnectionOutcomes("clear_articles_by_keyword", dbOk) :
             call' = [op |-> "clear_articles_by_keyword", kw |-> kw,
                      dbOk |-> dbOk, out |-> r.ok, conn |-> c,
                      removed |-> Cardinality(db \ r.rows)]
       /\ UNCHANGED << handlerVars, handed, mcp, now, files, sessions, renders >>

\* get_context_for_summary(article_title, keyword)
CallGetContextForSummary(title, kw, embOk, dbOk) ==
    /\ call = NoCall
    /\ call' = [op |-> "get_context_for_summary", title |-> title, kw |-> kw,
                embOk |-> embOk, dbOk |-> dbOk,
                out |-> GetContextForSummary(db, title, kw, embOk, dbOk)]
    /\ UNCHANGED << handlerVars, handed, mcp, now, db, files, sessions, renders >>

\* the caller takes what the call returned and goes on
CallReturns ==
    /\ call # NoCall
    /\ call' = NoCall
    /\ UNCHANGED << handlerVars, handed, mcp, now, db, files, sessions, renders >>

NextRag ==
    \/ \E a \in CallerArticles, kw \in StoreKeywords, dbOk \in BOOLEAN :
          CallInsertArticle(a, kw, dbOk)
    \/ \E t \in QueryTitles, kw \in StoreKeywords, k \in Limits,
          dbOk \in BOOLEAN :
          CallSearchSimilarArticles(t, kw, k, dbOk)
    \/ \E kw \in StoreKeywords, dbOk \in BOOLEAN :
          CallGetAllArticlesByKeyword(kw, dbOk)
    \/ \E kw \in StoreKeywords, dbOk \in BOOLEAN :
          CallClearArticlesByKeyword(kw, dbOk)
    \/ \E t \in QueryTitles, kw \in StoreKeywords, embOk \in BOOLEAN,
          dbOk \in BOOLEAN :
          CallGetContextForSummary(t, kw, embOk, dbOk)
    \/ CallReturns

SpecRag == InitRag /\ [][NextRag]_vars

(***************************************************************************)
(* Concurrent runs on the store.  Every call of the database manager opens *)
(* its own connection, executes one statement and commits (database.py     *)
(* lines 81-105, 205-214), so each call is one PostgreSQL transaction at   *)
(* READ COMMITTED: a statement sees the rows committed before it; an       *)
(* INSERT of an entry id that an open transaction has inserted or deleted  *)
(* waits for that transaction to end, because of the unique index on       *)
(* entry_id; a DELETE of a row that an open transaction is deleting waits  *)
(* for it.                                                                 *)
(***************************************************************************)
\* the number of arXiv entries the concurrent runs store
MaxShared == 2

RunIds == {"r1", "r2"}
\* entry i as a run holds it: the two runs fetched it at different times
RunArticle(s, i) ==
    IF s = "r1" THEN DirectArticle(i) ELSE Revised(DirectArticle(i))

NoTxn == [op |-> "none"]
\* what the last call of a run returned
NoReturn == [op |-> "none"]
InsertReturn(article, out) ==
    [op |-> "insert_article", entry_id |-> article.entry_id, out |-> out]
ClearReturn(out) == [op |-> "clear_articles_by_keyword", out |-> out]

InitDb ==
    /\ HandlerIdle
    /\ useMcp = FALSE
    /\ now = 0
    /\ db = {}
    /\ db0 = {}
    /\ files = {}
    /\ call = NoCall
    /\ renders = << >>
    /\ \E kw \in StoreKeywords :
          sessions = [s \in RunIds |->
                        [ kw    |-> IF s = "r1" THEN KwA ELSE kw,
                          txn   |-> NoTxn,
                          ret   |-> NoReturn,
                          alone |-> {} ]]
    /\ handed = NoneHanded
    /\ mcp = NoMcp


\* the entry ids that the open transactions of the other runs hold: the ids
\* of the rows they inserted or are deleting
HeldByOthers_None(s) == {}
HeldByOthers(s) ==
    UNION {{r.entry_id : r \in sessions[t].txn.rows} :
              t \in {u \in RunIds \ {s} : sessions[u].txn.op # "none"}}

\* insert_article, lines 81-100: connect and cursor.execute(INSERT ...)
InsertExecute(s, i, dbOk) ==
    /\ sessions[s].txn = NoTxn
    /\ IF ~dbOk
       THEN sessions' =
               [sessions EXCEPT ![s].ret = InsertReturn(RunArticle(s, i), FALSE)]
       ELSE /\ i \notin HeldByOthers(s)
            /\ LET article == RunArticle(s, i)
                   r == InsertArticle(db, article, sessions[s].kw,
                                      EmbedTitleAndSummary(article), TRUE)
               IN sessions' =
                     [sessions EXCEPT ![s].txn = [op      |-> "insert",
                                                  article |-> article,
                                                  rows    |-> r.rows \ db,
                                                  undone  |-> FALSE],
                                      ![s].ret = NoReturn]
    /\ UNCHANGED << handlerVars, handed, mcp, now, db, files, call, renders >>

\* insert_article, lines 102-109: conn.commit() and return True; an
\* exception gives False and the connection is dropped uncommitted
InsertCommit(s, dbOk) ==
    /\ sessions[s].txn.op = "insert"
    /\ IF dbOk
       THEN /\ db' = db \cup sessions[s].txn.rows
            /\ sessions' =
                  [sessions EXCEPT
                     ![s].txn = NoTxn,
                     ![s].ret = InsertReturn(sessions[s].txn.article, TRUE),
                     ![s].alone =
                        InsertArticle(
                           @, sessions[s].txn.article, sessions[s].kw,
                           EmbedTitleAndSummary(sessions[s].txn.article),
                           TRUE).rows]
       ELSE /\ db' = db
            /\ sessions' =
                  [sessions EXCEPT
                     ![s].txn = NoTxn,
                     ![s].ret = InsertReturn(sessions[s].txn.article, FALSE)]
    /\ UNCHANGED << handlerVars, handed, mcp, now, files, call, renders >>

\* clear_articles_by_keyword, lines 205-209: connect and cursor.execute(DELETE ...)
ClearExecute(s, dbOk) ==
    /\ sessions[s].txn = NoTxn
    /\ IF ~dbOk
       THEN sessions' = [sessions EXCEPT ![s].ret = ClearReturn(FALSE)]
       ELSE /\ {r.entry_id : r \in Tagged(db, sessions[s].kw)}
                   \cap HeldByOthers(s) = {}
            /\ sessions' =
                  [sessions EXCEPT
                     ![s].txn = [op   |-> "clear",
                                 rows |-> Tagged(db, sessions[s].kw)],
                     ![s].ret = NoReturn]
    /\ UNCHANGED << handlerVars, handed, mcp, now, db, files, call, renders >>

\* clear_articles_by_keyword, lines 211-218: conn.commit() and return True.
\* (History: an open insert that found the row this delete removes is
\* marked, its ON CONFLICT DO NOTHING having skipped a row that is gone.)
ClearCommit(s, dbOk) ==
    /\ sessions[s].txn.op = "clear"
    /\ IF dbOk
       THEN /\ db' = db \ sessions[s].txn.rows
            /\ sessions' =
                  [t \in RunIds |->
                     IF t = s
                     THEN [sessions[s] EXCEPT
                              !.txn = NoTxn,
                              !.ret = ClearReturn(TRUE),
                              !.alone = ClearArticlesByKeyword(
                                           @, sessions[s].kw, TRUE).rows]
                     ELSE IF /\ sessions[t].txn.op = "insert"
                             /\ \E r \in sessions[s].txn.rows :
                                   r.entry_id = sessions[t].txn.article.entry_id
                          THEN [sessions[t] EXCEPT !.txn.undone = TRUE]
                          ELSE sessions[t]]
       ELSE /\ db' = db
            /\ sessions' = [sessions EXCEPT ![s].txn = NoTxn,
                                            ![s].ret = ClearReturn(FALSE)]
    /\ UNCHANGED << handlerVars, handed, mcp, now, files, call, renders >>

NextDb ==
    \/ \E s \in RunIds, i \in 1 .. MaxShared, dbOk \in BOOLEAN :
          InsertExecute(s, i, dbOk)
    \/ \E s \in RunIds, dbOk \in BOOLEAN : InsertCommit(s, dbOk)
    \/ \E s \in RunIds, dbOk \in BOOLEAN : ClearExecute(s, dbOk)
    \/ \E s \in RunIds, dbOk \in BOOLEAN : ClearCommit(s, dbOk)

SpecDb == InitDb /\ [][NextDb]_vars

(***************************************************************************)
(* Concurrent runs that render their report: runs served by different      *)
(* processes of the API, each at pdf_generator.generate_pdf_report.  The    *)
(* clock is read once, when the file is named.                             *)
(***************************************************************************)
RenderKeywords == {KwA, KwB, KwC}

InitRender ==
    /\ HandlerIdle
    /\ useMcp = FALSE
    /\ now = 0
    /\ db = {}
    /\ db0 = {}
    /\ files = {}
    /\ call = NoCall
    /\ sessions = << >>
    /\ renders \in [RunIds -> [kw : RenderKeywords, pc : {"ready"},
                               path : {PyNone}, out : {PyNone}]]
    /\ handed = NoneHanded
    /\ mcp = NoMcp


\* time passes
Tick ==
    /\ now < MaxClock
    /\ now' = now + 1
    /\ UNCHANGED << handlerVars, db, files, clientVars >>

\* generate_pdf_report, lines 279-284: os.makedirs, which can raise, then
\* the file name from the keyword and the time to the second
RenderName(s, mkdirOk) ==
    /\ renders[s].pc = "ready"
    /\ renders' =
          IF mkdirOk
          THEN [renders EXCEPT ![s].pc = "named",
                               ![s].path = ReportPath(renders[s].kw, now)]
          ELSE [renders EXCEPT ![s].pc = "raised"]
    /\ UNCHANGED << handlerVars, handed, mcp, now, db, files, call, sessions >>

\* generate_pdf_report, lines 287-288: generate_report builds the document
\* at output_path, replacing a file of that name, and returns the path, or
\* "" when the build raised
RenderWrite(s, buildOk) ==
    /\ renders[s].pc = "named"
    /\ renders' =
          [renders EXCEPT ![s].pc = "returned",
                          ![s].out = GenerateReport(renders[s].path, buildOk)]
    /\ files' = IF buildOk THEN files \cup {renders[s].path} ELSE files
    /\ UNCHANGED << handlerVars, handed, mcp, now, db, call, sessions >>

NextRender ==
    \/ Tick
    \/ \E s \in RunIds, mkdirOk \in BOOLEAN : RenderName(s, mkdirOk)
    \/ \E s \in RunIds, buildOk \in BOOLEAN : RenderWrite(s, buildOk)

SpecRender == InitRender /\ [][NextRender]_vars

(***************************************************************************)
(* The two search paths side by side: one caller asks both for the same    *)
(* keyword and limit while the backend holds the same articles.            *)
(***************************************************************************)
SearchKeywords == {KwA, KwB}
\* the limits asked for: below, at and above the ceiling of the MCP server
SearchLimits == {1, 2, McpCeiling, McpCeiling + 1}
\* the number of articles the backend holds for the keyword
BackendSizes == (0 .. MaxResults) \cup {McpCeiling + 1}

InitSearch ==
    /\ HandlerIdle
    /\ useMcp = FALSE
    /\ now = 0
    /\ db = {}
    /\ db0 = {}
    /\ files = {}
    /\ call = NoCall
    /\ sessions = << >>
    /\ renders = << >>
    /\ handed = NoneHanded
    /\ mcp = NoMcp

\* tools.arxiv_tool.search_arxiv(kw, m) and
\* tools.arxiv_mcp_client.search_arxiv_sync(kw, m) against the same backend
CallSearchArxiv(kw, m, avail, directOutcome, mcpOutcome) ==
    /\ call = NoCall
    /\ call' = [ op          |-> "search_arxiv",
                 keyword     |-> kw,
                 max_results |-> m,
                 avail       |-> avail,
                 direct      |-> [ outcome   |-> directOutcome,
                                   requested |-> DirectRequested(m),
                                   result    |-> SearchArxivDirect(kw, m, avail,
                                                                   directOutcome) ],
                 mcp         |-> [ outcome   |-> mcpOutcome,
                                   requested |-> McpRequested(m),
                                   result    |-> SearchArxivSync(kw, m, avail,
                                                                 mcpOutcome) ] ]
    /\ UNCHANGED << handlerVars, handed, mcp, now, db, files, sessions, renders >>

NextSearch ==
    \/ \E kw \in SearchKeywords, m \in SearchLimits, avail \in BackendSizes,
          directOutcome \in DirectOutcomes, mcpOutcome \in McpOutcomes :
          CallSearchArxiv(kw, m, avail, directOutcome, mcpOutcome)
    \/ CallReturns

SpecSearch == InitSearch /\ [][NextSearch]_vars

(***************************************************************************)
(* One VeilleScientifiqueCrew object on which a caller runs the complete   *)
(* workflow several times.  self.articles is bound anew by every           *)
(* collection; self.article_summaries is bound once, by __init__, and      *)
(* execute_summarization returns that very list, which the result          *)
(* dictionary then holds.                                                  *)
(***************************************************************************)
\* the number of calls the caller makes on the object
MaxCalls == 2

\* VeilleScientifiqueCrew(keyword, max_articles) has been constructed
InitCrew ==
    /\ useMcp = FALSE
    /\ now = 0
    /\ runs = 0
    /\ pc = "ready"
    /\ request = NoRequest
    /\ response = NoResponse
    /\ exc = "none"
    /\ crews = 1
    /\ keyword = KwA
    /\ max_articles = MaxResults
    /\ articles = << >>
    /\ article_summaries = << >>
    /\ idx = 0
    /\ stored_count = 0
    /\ context = << >>
    /\ quick_summary = NoText
    /\ global_synthesis = NoText
    /\ pdf_path = PyNone
    /\ result = NoResult
    /\ db = {}
    /\ db0 = {}
    /\ files = {}
    /\ started = << >>
    /\ completed = << >>
    /\ llmCalls = 0
    /\ events = {}
    /\ quickInput = NoInput
    /\ synthInput = NoInput
    /\ call = NoCall
    /\ sessions = << >>
    /\ renders = << >>
    /\ handed = NoneHanded
    /\ mcp = NoMcp

\* crew.run_complete_workflow() is entered: its locals are fresh, the
\* attributes of the object are what the calls before left
CallRunCompleteWorkflow ==
    /\ pc = "ready"
    /\ runs < MaxCalls
    /\ runs' = runs + 1
    /\ pc' = "collect"
    /\ result' = NoResult
    /\ idx' = 0
    /\ stored_count' = 0
    /\ context' = << >>
    /\ quick_summary' = NoText
    /\ global_synthesis' = NoText
    /\ pdf_path' = PyNone
    /\ started' = << >>
    /\ completed' = << >>
    /\ llmCalls' = 0
    /\ events' = {}
    /\ db0' = db
    /\ quickInput' = NoInput
    /\ synthInput' = NoInput
    /\ UNCHANGED << useMcp, now, request, response, exc, crews, keyword,
                    max_articles, articles, article_summaries, db, files,
                    clientVars >>

\* The caller holds the dictionary run_complete_workflow returned.  Its
\* 'article_summaries' is the object self.article_summaries (the list that
\* execute_summarization returned), so `shared` tells that the entry reads
\* the list of the crew; `result` keeps the value at the time of the return.
Handed(res) ==
    [result |-> res, shared |-> "article_summaries" \in DOMAIN res]

\* what a caller reads in a dictionary it was handed
Visible(h) ==
    IF h.shared
    THEN [h.result EXCEPT !.article_summaries = article_summaries]
    ELSE h.result

CallerTakesResult ==
    /\ pc = "returned"
    /\ handed' = Append(handed, Handed(result))
    /\ pc' = "ready"
    /\ UNCHANGED << useMcp, now, runs, request, response, exc, crews, keyword,
                    max_articles, articles, article_summaries, idx,
                    stored_count, context, quick_summary, global_synthesis,
                    pdf_path, result, db, files, started, completed, llmCalls,
                    events, db0, quickInput, synthInput, call, sessions,
                    renders, mcp >>

\* the caller catches what run_complete_workflow raised
CallerCatches ==
    /\ pc = "raised"
    /\ pc' = "ready"
    /\ exc' = "none"
    /\ UNCHANGED << useMcp, now, runs, request, response, crews, keyword,
                    max_articles, articles, article_summaries, idx,
                    stored_count, context, quick_summary, global_synthesis,
                    pdf_path, result, db, files, started, completed, llmCalls,
                    events, db0, quickInput, synthInput, clientVars >>

NextCrew ==
    \/ CallRunCompleteWorkflow
    \/ ExecuteCollectionSearch
    \/ StoreArticle
    \/ CheckArticles
    \/ ExecuteQuickSummary
    \/ ExecuteSummarizationBegin
    \/ BuildContext
    \/ SummarizeArticle
    \/ ExecuteGlobalSynthesis
    \/ GeneratePdfReport
    \/ ReturnResult
    \/ CallerTakesResult
    \/ CallerCatches

SpecCrew == InitCrew /\ [][NextCrew]_vars

(***************************************************************************)
(* src/tools/arxiv_mcp_client.py: one call of search_arxiv_sync.  The      *)
(* calling thread submits run_in_thread to a ThreadPoolExecutor and waits  *)
(* for the future; the worker thread runs _search on a client of its own.  *)
(* mcp.log is the history of what the client did.                          *)
(***************************************************************************)
ConnectOutcomes == {"ok", "stdio_error", "session_error", "initialize_error"}
CallToolOutcomes == {"ok", "error_response", "call_error"}

\* ArxivMCPClient.__init__: no session, no exit stack
NewClient == [session |-> "none", stack |-> "none"]

\* search_arxiv, line 62: `if not self.session`
NeedsConnect(client) == client.session = "none"

\* connect(): the exit stack is created first, then stdio_client and
\* ClientSession are entered, then the session is initialized; what the
\* client holds when connect returns or raises
AfterConnect(outcome) ==
    [ session |-> IF outcome = "ok" THEN "initialized"
                  ELSE IF outcome = "initialize_error" THEN "created"
                  ELSE "none",
      stack   |-> "open" ]

\* disconnect(), lines 46-49, when aclose() has returned
AfterAclose_KeepsSession(client) == [client EXCEPT !.stack = "none"]
AfterAclose(client) == [session |-> "none", stack |-> "none"]

\* `with ThreadPoolExecutor() as executor`: __exit__ is shutdown(wait=True)
ShutdownWaits_NoWait == FALSE
ShutdownWaits == TRUE

InitMcp ==
    /\ HandlerIdle
    /\ useMcp = TRUE
    /\ now = 0
    /\ db = {}
    /\ db0 = {}
    /\ files = {}
    /\ call = NoCall
    /\ sessions = << >>
    /\ renders = << >>
    /\ handed = NoneHanded
    /\ mcp = NoMcp

mcpFrame == << handlerVars, handed, now, db, files, call, sessions, renders >>

\* search_arxiv_sync(kw, m), lines 121-122: the executor is created and
\* run_in_thread is submitted
CallSearchArxivSync(kw, m, avail) ==
    /\ mcp = NoMcp
    /\ mcp' = [ main        |-> "waiting",
                pending     |-> "none",
                worker      |-> "queued",
                shutdown    |-> FALSE,
                future      |-> "pending",
                client      |-> NewClient,
                failed      |-> FALSE,
                keyword     |-> kw,
                max_results |-> m,
                avail       |-> avail,
                results     |-> << >>,
                log         |-> << >> ]
    /\ UNCHANGED mcpFrame

\* run_in_thread, _search line 108: client = ArxivMCPClient()
WorkerStarts ==
    /\ mcp.main # "none"
    /\ mcp.worker = "queued"
    /\ mcp' = [mcp EXCEPT !.worker = "connect", !.client = NewClient]
    /\ UNCHANGED mcpFrame

\* _search line 110: await client.connect(); an exception leaves the try
WorkerConnects(outcome) ==
    /\ mcp.main # "none"
    /\ mcp.worker = "connect"
    /\ mcp' = [mcp EXCEPT
                 !.client = AfterConnect(outcome),
                 !.log    = Append(@, IF outcome = "ok" THEN "connected"
                                      ELSE "connect_raised"),
                 !.failed = outcome # "ok",
                 !.worker = IF outcome = "ok" THEN "search" ELSE "finally"]
    /\ UNCHANGED mcpFrame

\* _search line 111: results = await client.search_arxiv(...).  search_arxiv
\* connects first when the client holds no session (lines 62-63, outside the
\* try); an exception of call_tool is caught (lines 88-90)
WorkerSearches(connectOutcome, outcome) ==
    /\ mcp.main # "none"
    /\ mcp.worker = "search"
    /\ IF NeedsConnect(mcp.client) /\ connectOutcome # "ok"
       THEN mcp' = [mcp EXCEPT
                      !.client = AfterConnect(connectOutcome),
                      !.log    = Append(@, "connect_raised"),
                      !.failed = TRUE,
                      !.worker = "finally"]
       ELSE mcp' = [mcp EXCEPT
                      !.client  = IF NeedsConnect(mcp.client)
                                  THEN AfterConnect("ok") ELSE @,
                      !.log     = (IF NeedsConnect(mcp.client)
                                   THEN Append(@, "connected") ELSE @)
                                     \o << "call_tool" >>,
                      !.results = ClientSearchArxiv(mcp.keyword, mcp.max_results,
                                                    mcp.avail, outcome),
                      !.worker  = "finally"]
    /\ UNCHANGED mcpFrame

\* _search lines 113-114: finally: await client.disconnect().  When aclose()
\* raises, the two assignments after it are not reached and the exception
\* leaves _search.  Then asyncio.run returns or raises, the future is set and
\* the worker thread waits for more work.
WorkerDisconnects(closeOk) ==
    /\ mcp.main # "none"
    /\ mcp.worker = "finally"
    /\ LET raised == mcp.client.stack # "none" /\ ~closeOk
           failed == mcp.failed \/ raised
       IN mcp' = [mcp EXCEPT
                    !.client = IF mcp.client.stack = "none" \/ raised
                               THEN @ ELSE AfterAclose(@),
                    !.log    = Append(@, IF raised THEN "disconnect_raised"
                                         ELSE "disconnected"),
                    !.failed = failed,
                    !.future = IF failed THEN "exception" ELSE "result",
                    !.worker = "idle"]
    /\ UNCHANGED mcpFrame

\* the worker thread ends once the executor is shut down
WorkerTerminates ==
    /\ mcp.main # "none"
    /\ mcp.worker = "idle"
    /\ mcp.shutdown
    /\ mcp' = [mcp EXCEPT !.worker = "terminated"]
    /\ UNCHANGED mcpFrame

\* line 123: future.result(timeout=120) returns the result or raises the
\* exception of the worker, and the with block is left
MainGetsFuture ==
    /\ mcp.main = "waiting"
    /\ mcp.future # "pending"
    /\ mcp' = [mcp EXCEPT !.main = "exiting", !.pending = mcp.future,
                          !.shutdown = TRUE]
    /\ UNCHANGED mcpFrame

\* line 123: the 120 seconds pass before the future is set
MainTimesOut ==
    /\ mcp.main = "waiting"
    /\ mcp.future = "pending"
    /\ mcp' = [mcp EXCEPT !.main = "exiting", !.pending = "TimeoutError",
                          !.shutdown = TRUE]
    /\ UNCHANGED mcpFrame

\* the end of the with block: shutdown(wait=True) joins the worker thread,
\* then the value is returned or the exception goes on
MainLeavesExecutor ==
    /\ mcp.main = "exiting"
    /\ ShutdownWaits => mcp.worker = "terminated"
    /\ mcp' = [mcp EXCEPT !.main = IF mcp.pending = "result"
                                   THEN "returned" ELSE "raised"]
    /\ UNCHANGED mcpFrame

\* the caller of search_arxiv_sync goes on
CallerGoesOn ==
    /\ mcp.main \in {"returned", "raised"}
    /\ mcp.worker = "terminated"
    /\ mcp' = NoMcp
    /\ UNCHANGED mcpFrame

NextMcp ==
    \/ \E kw \in SearchKeywords, m \in SearchLimits, avail \in 0 .. MaxResults :
          CallSearchArxivSync(kw, m, avail)
    \/ WorkerStarts
    \/ \E outcome \in ConnectOutcomes : WorkerConnects(outcome)
    \/ \E connectOutcome \in ConnectOutcomes, outcome \in CallToolOutcomes :
          WorkerSearches(connectOutcome, outcome)
    \/ \E closeOk \in BOOLEAN : WorkerDisconnects(closeOk)
    \/ WorkerTerminates
    \/ MainGetsFuture
    \/ MainTimesOut
    \/ MainLeavesExecutor
    \/ CallerGoesOn

SpecMcp == InitMcp /\ [][NextMcp]_vars

(***************************************************************************)
(* Properties.                                                             *)
(***************************************************************************)
IsPrefix(s, t) == Len(s) <= Len(t) /\ \A i \in 1 .. Len(s) : s[i] = t[i]

\* the handler has answered the request
Answered == pc = "responded"
\* run_complete_workflow returned a dictionary to the handler
Returned == pc \in {"returned", "responded"} /\ exc = "none"
\* execute_collection returned at least one article
Collected == "COLLECT" \in {completed[i] : i \in DOMAIN completed}
                /\ ~IsEmptyList(articles)

\* C1: the stages of a run start in the order COLLECT, QUICK_DIGEST,
\* SUMMARIZE_EACH, SYNTHESIZE, RENDER_REPORT, each at most once and none
\* before the one before it has returned; and when collection yielded an
\* article, the result is returned only after each of the five has run once.
C1_StagesInOrder ==
    /\ IsPrefix(started, StageOrder)
    /\ IsPrefix(completed, started)
    /\ Len(started) <= Len(completed) + 1
    /\ (Returned /\ ~IsEmptyList(articles)) =>
          /\ started = StageOrder
          /\ completed = StageOrder

C1_Witness ==
    /\ pc = "returned"
    /\ Len(articles) >= 2
    /\ completed = StageOrder

\* C2: once collection has returned no article, no other stage is ever
\* started, no LLM call is made and no report is written, and the run
\* returns success = false with the fixed error, the fixed quick summary and
\* pdf_path = None.
C2_NoArticlesFails ==
    (completed # << >> /\ IsEmptyList(articles)) =>
        /\ started = << "COLLECT" >>
        /\ llmCalls = 0
        /\ "report_written" \notin events
        /\ pc \in {"check", "returned", "responded"}
        /\ pc # "check" =>
              /\ result.success = FALSE
              /\ result.error = ErrorNoArticles
              /\ result.quick_summary = QuickNoArticles
              /\ result.pdf_path = PyNone
              /\ DOMAIN result = {"success", "error", "quick_summary", "pdf_path"}

C2_Witness ==
    /\ Answered
    /\ completed = << "COLLECT" >>
    /\ IsEmptyList(articles)
    /\ response.status = StatusOk

\* the backend calls of this run that failed
ErrorEvents ==
    events \cap {"search_error", "search_raised", "embed_error", "insert_error",
                 "quick_error", "summary_error", "synthesis_error",
                 "makedirs_error", "build_error"}

\* C3: a request that has been answered, whose search returned n >= 1
\* articles and none of whose backend calls failed, got success = true,
\* articles_count = n, n article summaries and a report path.
C3_SuccessfulRun ==
    (Answered /\ ~IsEmptyList(articles) /\ ErrorEvents = {}) =>
        /\ response.status = StatusOk
        /\ result.success = TRUE
        /\ result.articles_count = Len(articles)
        /\ Len(result.article_summaries) = Len(articles)
        /\ result.pdf_path.t = "path"
        /\ result.pdf_path \in files

C3_Witness ==
    /\ Answered
    /\ Len(articles) >= 2
    /\ ErrorEvents = {}
    /\ result.success = TRUE

\* C4 (as claimed): when the synthesis call raised, the request is still
\* answered with success = true, the quick summary and the article summaries
\* already computed, and a rendered report.
C4_SynthesisFailureKept ==
    (Answered /\ "synthesis_error" \in events) =>
        /\ response.status = StatusOk
        /\ result.success = TRUE
        /\ result.quick_summary = quick_summary
        /\ result.article_summaries = article_summaries
        /\ "RENDER_REPORT" \in {completed[i] : i \in DOMAIN completed}

\* C5 (as claimed): when the quick digest call raised, SUMMARIZE_EACH,
\* SYNTHESIZE and RENDER_REPORT are still attempted in order and the run
\* returns.
C5_QuickFailureContinues ==
    (Answered /\ "quick_error" \in events) =>
        /\ started = StageOrder
        /\ response.status = StatusOk

\* C6 (as claimed): whichever summarisation calls raised, once the request
\* is answered article_summaries has one entry per article, in the order of
\* the articles.
C6_SummariesKeepLengthAndOrder ==
    (Answered /\ "summary_error" \in events) =>
        /\ Len(article_summaries) = Len(articles)
        /\ \A i \in DOMAIN article_summaries :
              article_summaries[i].title = articles[i].title

\* C7 (as claimed): when rendering failed (the directory could not be made
\* or the document could not be built), the request is still answered with
\* a result that holds no report path and every other field as computed.
C7_RenderFailureKept ==
    (Answered /\ events \cap {"makedirs_error", "build_error"} # {}) =>
        /\ response.status = StatusOk
        /\ result.success = TRUE
        /\ ~Truthy(result.pdf_path)
        /\ result.keyword = keyword
        /\ result.articles_count = Len(articles)
        /\ result.quick_summary = quick_summary
        /\ result.global_synthesis = global_synthesis
        /\ result.article_summaries = article_summaries

\* C8 (as claimed): on either search path, a failed search makes
\* execute_collection return [] and the run end in the no-articles result.
C8_SearchFailureGivesEmpty ==
    (Answered /\ events \cap {"search_error", "search_raised"} # {}) =>
        /\ exc = "none"
        /\ IsEmptyList(articles)
        /\ completed = << "COLLECT" >>
        /\ response.status = StatusOk
        /\ result.success = FALSE
        /\ result.error = ErrorNoArticles

\* every embedding call of the store loop failed (the loop has ended)
AllEmbeddingsFailed ==
    /\ Collected
    /\ "embed_error" \in events
    /\ "embed_ok" \notin events

\* C9: when every embedding call of the store loop failed, the collection
\* still holds every article the search returned, in the order of the
\* source, the run goes on to the quick digest and further, articles_count
\* is the number fetched, and the table holds the rows it held when the run
\* began.
C9_EmbeddingFailureKeepsArticles ==
    AllEmbeddingsFailed =>
        /\ db = db0
        /\ \A i \in DOMAIN articles : articles[i].entry_id = Shift(keyword) + i
        /\ pc # "check" =>
              \/ pc = "quick"
              \/ "QUICK_DIGEST" \in {started[i] : i \in DOMAIN started}
        /\ Returned => /\ result.success = TRUE
                       /\ result.articles_count = Len(articles)

C9_Witness ==
    /\ AllEmbeddingsFailed
    /\ Answered
    /\ Len(articles) >= 2
    /\ response.status = StatusOk
    /\ result.articles_count = Len(articles)

\* C10 (as claimed): a request with an empty or blank keyword, or with
\* max_articles outside [1, 50], is answered with a 4xx status and without
\* any stage having run.
C10_InvalidRequestRejected ==
    (Answered /\ ValidationStatus(request) # 0) =>
        /\ response.status >= 400
        /\ response.status <= 499
        /\ started = << >>
        /\ keyword = KwEmpty

(***************************************************************************)
(* Properties of the store.                                                *)
(***************************************************************************)
\* the entry ids of a list of article dictionaries
Ids(list) == {list[i].entry_id : i \in DOMAIN list}
\* C11: a call of insert_article for an entry id that the table already
\* holds under the same keyword, when the database does not fail, returns
\* True and leaves the table as it was (every field of the row, the
\* embedding included, whatever field values the call carries), with exactly
\* one row for that id.
C11_InsertTwiceKeepsRow ==
    [][ ( /\ call'.op = "insert_article"
          /\ call'.dbOk
          /\ \E r \in db : /\ r.entry_id = call'.article.entry_id
                           /\ r.keyword = call'.kw )
        => /\ call'.out = TRUE
           /\ db' = db
           /\ Cardinality({r \in db' : r.entry_id = call'.article.entry_id}) = 1
      ]_vars

\* the last call re-inserted, under the same keyword, an entry whose stored
\* row carries other field values than the call did
C11_Witness ==
    /\ call.op = "insert_article"
    /\ call.out = TRUE
    /\ \E r \in db : /\ r.entry_id = call.article.entry_id
                     /\ r.keyword = call.kw
                     /\ r.title # call.article.title
                     /\ r.embedding # EmbedTitleAndSummary(call.article)

\* C12: a call of insert_article for an entry id that the table already
\* holds under another keyword A, when the database does not fail, returns
\* True and leaves the table as it was, so the row keeps keyword A; after
\* it neither search_similar_articles nor get_all_articles_by_keyword
\* returns the entry for the keyword of the call, and both return it for A
\* (the search when its limit is at least the number of rows tagged A).
C12_OtherKeywordIsNoOp ==
    [][ ( /\ call'.op = "insert_article"
          /\ call'.dbOk
          /\ \E r \in db : /\ r.entry_id = call'.article.entry_id
                           /\ r.keyword # call'.kw )
        => /\ call'.out = TRUE
           /\ db' = db
           /\ \A r \in db' :
                 r.entry_id = call'.article.entry_id =>
                    /\ r.entry_id \notin
                          Ids(GetAllArticlesByKeyword(db', call'.kw, TRUE))
                    /\ r.entry_id \in
                          Ids(GetAllArticlesByKeyword(db', r.keyword, TRUE))
                    /\ \A t \in QueryTitles :
                          /\ \A k \in Limits :
                                r.entry_id \notin
                                   Ids(SearchSimilarArticles(
                                          db', EmbedTitle(t), call'.kw, k, TRUE))
                          /\ r.entry_id \in
                                Ids(SearchSimilarArticles(
                                       db', EmbedTitle(t), r.keyword,
                                       Cardinality(Tagged(db', r.keyword)), TRUE))
      ]_vars

\* the last call re-inserted an entry that is stored under the other keyword
C12_Witness ==
    /\ call.op = "insert_article"
    /\ call.out = TRUE
    /\ \E r \in db : /\ r.entry_id = call.article.entry_id
                     /\ r.keyword # call.kw
    /\ Tagged(db, call.kw) # {}

C14_RunsIsolated ==
    sessions["r1"].kw # sessions["r2"].kw =>
        \A s \in RunIds :
           /\ Tagged(db, sessions[s].kw) = Tagged(sessions[s].alone, sessions[s].kw)
           /\ \A i \in 1 .. MaxShared :
                 GetContextForSummary(db, RunArticle(s, i).title,
                                      sessions[s].kw, TRUE, TRUE)
                    = GetContextForSummary(sessions[s].alone,
                                           RunArticle(s, i).title,
                                           sessions[s].kw, TRUE, TRUE)

Blocks(text) == SelectSeq(text, LAMBDA p : p.t = "block")
\* the stored row a block was built from
RowOfBlock(rows, b) ==
    CHOOSE r \in rows : r.title = b.title /\ r.summary = b.summary

\* C16: get_context_for_summary(title, w) always returns a text: the empty
\* string when the embedding call or the database call raised or when no
\* row is tagged w, and otherwise the title and abstract blocks of the
\* min(3, number of rows tagged w) rows nearest to the embedding of the
\* title alone, nearest first, with the delimiter between two blocks.
C16_ContextNeverRaises ==
    call.op = "get_context_for_summary" =>
        LET tagged == Tagged(db, call.kw)
            q      == EmbedTitle(call.title)
            blocks == Blocks(call.out)
            dist(b) == CosineDistance(RowOfBlock(tagged, b).embedding, q)
        IN IF ~call.embOk \/ ~call.dbOk \/ tagged = {}
           THEN call.out = << >>
           ELSE /\ Len(blocks) = Min(ContextTopK, Cardinality(tagged))
                /\ Len(call.out) = 2 * Len(blocks) - 1
                /\ \A i \in DOMAIN call.out :
                      IF i % 2 = 1
                      THEN /\ call.out[i].t = "block"
                           /\ \E r \in tagged :
                                 /\ call.out[i].title = r.title
                                 /\ call.out[i].summary = r.summary
                      ELSE call.out[i] = ContextDelimiter
                /\ \A i \in DOMAIN blocks, j \in DOMAIN blocks :
                      i < j => /\ dist(blocks[i]) <= dist(blocks[j])
                               /\ blocks[i] # blocks[j]
                /\ \A r \in tagged :
                      (\A i \in DOMAIN blocks : blocks[i].title # r.title) =>
                         \A i \in DOMAIN blocks :
                            dist(blocks[i]) <= CosineDistance(r.embedding, q)

\* a context of three blocks was built while more than three rows were
\* tagged with the keyword
C16_Witness ==
    /\ call.op = "get_context_for_summary"
    /\ Len(Blocks(call.out)) = ContextTopK
    /\ Len(call.out) = 2 * ContextTopK - 1
    /\ Cardinality(Tagged(db, call.kw)) > ContextTopK

(***************************************************************************)
(* Properties of the prompts and of the summary entries.                   *)
(***************************************************************************)
\* the stages of this run that have started, and those that have returned
StartedStages == {started[i] : i \in DOMAIN started}
CompletedStages == {completed[i] : i \in DOMAIN completed}

\* C17: the articles text of the quick-digest prompt holds, for the first
\* min(3, n) of the n collected articles in their order, the title and the
\* first 200 characters of the abstract and nothing else; the quick digest
\* runs while no article summary exists, and SUMMARIZE_EACH starts only
\* after it has returned.
C17_QuickDigestInput ==
    /\ quickInput # NoInput =>
          /\ "QUICK_DIGEST" \in StartedStages
          /\ Len(quickInput) = Min(QuickArticles, Len(articles))
          /\ \A i \in DOMAIN quickInput :
                /\ DOMAIN quickInput[i] = {"title", "summary"}
                /\ quickInput[i].title = articles[i].title
                /\ quickInput[i].summary.of = articles[i].summary.of
                /\ quickInput[i].summary.len
                      = Min(articles[i].summary.len, QuickChars)
    /\ pc = "quick" => article_summaries = << >>
    /\ "QUICK_DIGEST" \notin CompletedStages =>
          /\ "SUMMARIZE_EACH" \notin StartedStages
          /\ article_summaries = << >>

\* the quick digest was built from the first three of more than three
\* articles, one abstract cut and one not, and the summaries came after it
C17_Witness ==
    /\ Len(articles) > QuickArticles
    /\ Len(quickInput) = QuickArticles
    /\ \E i \in DOMAIN quickInput :
          quickInput[i].summary.len < articles[i].summary.len
    /\ \E i \in DOMAIN quickInput :
          quickInput[i].summary.len = articles[i].summary.len
    /\ Len(article_summaries) = Len(articles)

\* C18: the summaries text of the synthesis prompt holds, for each entry of
\* article_summaries in order, its title and its generated summary text and
\* nothing else, so it is a function of the summary list alone and holds no
\* abstract of a collected article.
C18_SynthesisInput ==
    synthInput # NoInput =>
        /\ "SYNTHESIZE" \in StartedStages
        /\ Len(synthInput) = Len(article_summaries)
        /\ \A i \in DOMAIN synthInput :
              /\ DOMAIN synthInput[i] = {"title", "summary"}
              /\ synthInput[i].title = article_summaries[i].title
              /\ synthInput[i].summary = article_summaries[i].summary
              /\ synthInput[i].summary \in LLMTexts

\* the synthesis prompt was built from the summaries of several articles
C18_Witness ==
    /\ Len(synthInput) >= 2
    /\ Len(synthInput) = Len(articles)
    /\ "SYNTHESIZE" \in CompletedStages

\* C19: in every state the i-th entry of article_summaries carries the
\* title, the authors, the publication date and the PDF link of the i-th
\* collected article, unchanged.
C19_SummaryFieldsMatchArticle ==
    /\ Len(article_summaries) <= Len(articles)
    /\ \A i \in DOMAIN article_summaries :
          /\ article_summaries[i].title = articles[i].title
          /\ article_summaries[i].authors = articles[i].authors
          /\ article_summaries[i].published = articles[i].published
          /\ article_summaries[i].pdf_url = articles[i].pdf_url

\* every one of several articles, fetched through the MCP path, has its entry
C19_Witness ==
    /\ useMcp
    /\ Len(article_summaries) >= 2
    /\ Len(article_summaries) = Len(articles)
    /\ keyword = KwB

\* C20 (as claimed): any two runs that wrote their report wrote it to
\* different paths, whatever their keywords and the times they rendered at.
C20_ReportPathsUnique ==
    \A s \in RunIds, t \in RunIds :
       ( /\ s # t
         /\ Truthy(renders[s].out)
         /\ Truthy(renders[t].out) )
       => renders[s].out # renders[t].out

\* C21: the direct search path and the MCP search path give the same
\* articles for the same keyword, limit and backend content: the same
\* order, the same fields and the same values.
C21_SamePathsSameArticles ==
    (/\ call.op = "search_arxiv"
     /\ call.direct.outcome = "ok"
     /\ call.mcp.outcome = "ok")
    => call.direct.result.value = call.mcp.result.value

\* C22: on both search paths the number of articles asked from the backend
\* is min(limit, 50), and no more than limit articles are returned.
C22_LimitClampedOnBothPaths ==
    call.op = "search_arxiv"
    => /\ call.direct.requested = Min(call.max_results, McpCeiling)
       /\ call.mcp.requested = Min(call.max_results, McpCeiling)
       /\ Len(call.direct.result.value) <= call.max_results
       /\ Len(call.mcp.result.value) <= call.max_results

\* C23: each of the four database operations opens a connection of its own
\* and has released it when it returns, on the success path and on every
\* error path, so that no connection stays open after any sequence of calls.
C23_ConnectionReleasedAtReturn ==
    call.op \in DbOps => call.conn \in {"closed", "not_acquired", "dropped_finalized"}

\* the calls made on the crew so far have all returned a result
AllCallsCompleted == pc = "ready" /\ runs >= 1 /\ Len(handed) = runs

\* C24: a result that run_complete_workflow has returned does not change
\* afterwards: whatever is later called on the same crew, every field of the
\* dictionary, the content of its article_summaries list included, reads as
\* it did at the return.
C24_ReturnedResultImmutable ==
    \A i \in DOMAIN handed : Visible(handed[i]) = handed[i].result

\* C28: once the calls made on one crew have all completed,
\* article_summaries holds one entry for each article of the most recent
\* collection, in order, and nothing else.
C28_SummariesOfLastCollection ==
    AllCallsCompleted
    => /\ Len(article_summaries) = Len(articles)
       /\ \A i \in DOMAIN article_summaries :
             article_summaries[i].title = articles[i].title

\* C25: a result that run_complete_workflow returns with success false, or
\* without a report (pdf_path None or empty), carries a non-empty error.
C25_FailureCarriesError ==
    (/\ result # NoResult
     /\ (~result.success \/ ~Truthy(result.pdf_path)))
    => /\ "error" \in DOMAIN result
       /\ result.error # ""

\* C26: SUMMARIZE_EACH takes the articles one at a time, in source order:
\* when the summarization call of the idx-th article is issued, the context
\* in hand is the one built for that article and the summaries of the idx-1
\* articles before it are appended; when the context of the idx-th article
\* is about to be retrieved, the summary of the article before it is
\* appended; and article_summaries is always the list of the summaries of a
\* prefix of the article list.
C26_OneArticleAtATime ==
    /\ pc = "sum_kickoff"
       => /\ idx \in DOMAIN articles
          /\ Len(article_summaries) = idx - 1
          /\ \E embOk \in BOOLEAN, dbOk \in BOOLEAN :
                context = GetContextForSummary(db, articles[idx].title,
                                               keyword, embOk, dbOk)
    /\ pc = "sum_context"
       => /\ idx \in DOMAIN articles
          /\ Len(article_summaries) = idx - 1
    /\ Len(article_summaries) <= Len(articles)
    /\ \A i \in DOMAIN article_summaries :
          \E text \in LLMTexts :
             article_summaries[i] = SummaryEntry(articles[i], text)

\* the second article's summarization call is about to be issued, with a
\* context that is not the one of the first article
C26_Witness ==
    /\ pc = "sum_kickoff"
    /\ idx = 2
    /\ Len(article_summaries) = 1
    /\ \A embOk \in BOOLEAN, dbOk \in BOOLEAN :
          context # GetContextForSummary(db, articles[1].title, keyword,
                                         embOk, dbOk)

\* C27: clear_articles_by_keyword(w), when it succeeds, returns True, leaves
\* no row tagged w and leaves every row tagged with another keyword as it
\* was, adding none; on a database error it returns False and the table is
\* as it was.
C27_DeleteByKeywordFrame ==
    [][ call'.op = "clear_articles_by_keyword"
        => IF call'.dbOk
           THEN /\ call'.out = TRUE
                /\ Tagged(db', call'.kw) = {}
                /\ \A r \in db : r.keyword # call'.kw => r \in db'
                /\ db' \subseteq db
           ELSE /\ call'.out = FALSE
                /\ db' = db
      ]_vars

\* a delete has succeeded that removed rows and left rows of another keyword
C27_Witness ==
    /\ call.op = "clear_articles_by_keyword"
    /\ call.out = TRUE
    /\ call.removed >= 1
    /\ db # {}
    /\ Tagged(db, call.kw) = {}

\* the positions of an event in the history of the client
Positions(e) == {i \in DOMAIN mcp.log : mcp.log[i] = e}
\* _search has ended, by a return or by an exception
SearchEnded == mcp.main # "none" /\ mcp.worker \in {"idle", "terminated"}

\* C29: in a protocol-mediated search the tool call comes only after a
\* connect that completed, with the session initialized and no disconnect in
\* between; when _search has ended, on whichever path, the last thing the
\* client did is the disconnect; and after a disconnect that returned the
\* client holds neither session nor exit stack, so that a later search_arxiv
\* on it would connect first.
C29_SessionLifecycleOrdered ==
    mcp.main # "none"
    => /\ \A i \in Positions("call_tool") :
             /\ i > 1
             /\ mcp.log[i - 1] = "connected"
       /\ (mcp.worker = "finally" /\ mcp.log[Len(mcp.log)] = "call_tool")
             => mcp.client.session = "initialized"
       /\ SearchEnded
             => /\ mcp.log # << >>
                /\ mcp.log[Len(mcp.log)] \in {"disconnected", "disconnect_raised"}
                /\ \A i \in DOMAIN mcp.log :
                      mcp.log[i] \in {"disconnected", "disconnect_raised"}
                         => i = Len(mcp.log)
       /\ (SearchEnded /\ mcp.log[Len(mcp.log)] = "disconnected")
             => /\ mcp.client = NewClient
                /\ NeedsConnect(mcp.client)

\* a search whose tool call answered with an error, or raised, has ended
\* with the client disconnected
C29_Witness ==
    /\ SearchEnded
    /\ mcp.log = << "connected", "call_tool", "disconnected" >>
    /\ mcp.results = << >>
    /\ mcp.avail >= 1
    /\ mcp.client = NewClient

\* C30: when search_arxiv_sync has returned a value or raised, the timeout
\* of future.result included, the worker thread it started has terminated.
C30_WorkerEndsBeforeReturn ==
    (mcp.main \in {"returned", "raised"}) => mcp.worker = "terminated"

\* the timeout fired while the worker was still running; the call raised
\* only after the worker had finished its search and terminated
C30_Witness ==
    /\ mcp.main = "raised"
    /\ mcp.pending = "TimeoutError"
    /\ mcp.future = "result"
    /\ mcp.worker = "terminated"

=============================================================================
